---- MODULE Spec2Model ----
(***************************************************************************)
(* A model of src/src/hooks/useDarkMode.ts: the dark-mode hook of xLog.    *)
(* Each instance is one consumer of the hook in its own browser tab; the   *)
(* tabs share the per-origin persistent storage and the operating system's *)
(* colour-scheme preference.                                               *)
(*                                                                         *)
(* JavaScript values are strings: UNDEFINED is undefined, JsTrue and       *)
(* JsFalse are the booleans, and "true" and "false" are the strings that   *)
(* storage holds.  An absent storage entry reads as UNDEFINED.             *)
(***************************************************************************)
EXTENDS Naturals, Sequences, FiniteSets, TLC

VARIABLES
  server,        \* isServerSide(): no browser document/window is available
  os,            \* window.matchMedia("(prefers-color-scheme: dark)").matches
  localStorage,  \* the persistent per-origin store, key -> string or UNDEFINED
  markup,        \* the class list the page's element starts with
  entry,         \* per instance: the hook it is mounted through
  initialArg,    \* per instance: initialState passed to useDarkModeInternal
  optKey,        \* per instance: options.storageKey of the latest render
  phase,         \* per instance: "idle" (not mounted) or "mounted"
  darkMode,      \* per instance: the useState value
  initialState,  \* per instance: initialState seen by the latest render
  triggerOnce,   \* per instance: triggerOnce.current
  dirty,         \* per instance: dependencies changed, effects not yet run
  effectKey,     \* per instance: storageKey of the last listener effect run
  storageL,      \* per instance: registered "storage" listeners (their key)
  mediaL,        \* per instance: registered media "change" listeners (key)
  unloadL,       \* per instance: number of "beforeunload" listeners
  seenOs,        \* per instance: the media query result last dispatched
  storageEvt,    \* per instance: keys with an undelivered storage event
  classList,     \* per instance: classes of the target element
  onceRef,       \* per instance: onceRef.current of useDarkMode
  isDark,        \* per instance: isDark of its process's useMediaStore
  cellToggle,    \* per instance: whose toggle that store holds
  toggleWrites,  \* per instance: how often the store's toggle was set
  activatedWith, \* per instance: the initialState of its first render
  overtaken,     \* per instance: an OS change came while it had work pending
  last           \* the operation that produced this state

vars == <<server, os, localStorage, markup, entry, initialArg, optKey, phase,
          darkMode, initialState, triggerOnce, dirty, effectKey, storageL,
          mediaL, unloadL, seenOs, storageEvt, classList, onceRef, isDark,
          cellToggle, toggleWrites, activatedWith, overtaken,
          last>>

\* what the model remembers of an activation beside the program's state
history == <<activatedWith, overtaken>>

\* the process-wide cell of each tab
cell == <<onceRef, isDark, cellToggle, toggleWrites>>

config == <<server, markup, entry, initialArg>>

\* ---- bounds -------------------------------------------------------------
NumTabs == 2

\* how often one process may mount a consumer of useDarkMode
MaxToggleWrites == 2

Inst == 1..NumTabs

\* ---- JavaScript values --------------------------------------------------
UNDEFINED == "undefined"

JsTrue == "TRUE"

JsFalse == "FALSE"

Bool(b) == IF b THEN JsTrue ELSE JsFalse

IsBool(v) == v \in {JsTrue, JsFalse}

\* JavaScript truthiness: undefined, false and "" are falsy
Truthy(v) == v \notin {UNDEFINED, JsFalse, ""}

\* the ! operator
Not(v) == IF Truthy(v) THEN JsFalse ELSE JsTrue

\* String(v)
String(v) == IF v = JsTrue THEN "true" ELSE IF v = JsFalse THEN "false" ELSE v

\* ---- configuration ------------------------------------------------------
darkModeKey == "darkMode"

classNameDark == "dark"

classNameLight == "light"

Keys == {darkModeKey, "theme"}

Stored == {UNDEFINED, "true", "false"}

\* what a caller may pass as options.storageKey
KeyOptions == {UNDEFINED} \cup Keys

\* who runs in the tabs: the first tab the application's useDarkMode or one
\* useDarkModeInternal of any configuration, the other tabs documents that
\* do not run the hook (ExternalWrite is what they do to the storage)
Scenarios ==
  {[i \in Inst |-> IF i = 1 THEN e ELSE "none"] :
     e \in {"useDarkMode", "useDarkModeInternal"}}

\* storageKey = darkModeKey: the destructuring default applies to undefined
storageKey(i) == IF optKey[i] = UNDEFINED THEN darkModeKey ELSE optKey[i]

\* ---- the storage facility (~/lib/storage) -------------------------------
getStorage(key) == IF server THEN UNDEFINED ELSE localStorage[key]

setStorage(store, key, value) == [store EXCEPT ![key] = value]

delStorage(store, key) == [store EXCEPT ![key] = UNDEFINED]

\* the browser queues a storage event in every other tab that listens, for
\* each key whose value changed
Notify(i, store) ==
  [j \in Inst |->
     IF j # i /\ storageL[j] # <<>>
     THEN storageEvt[j] \cup {k \in Keys : store[k] # localStorage[k]}
     ELSE storageEvt[j]]

\* ---- useDarkModeInternal ------------------------------------------------
\* the initialState argument of a render
Argument(i, store) ==
  IF entry[i] = "useDarkMode"
  THEN (IF server THEN UNDEFINED ELSE store[darkModeKey])
  ELSE initialArg[i]

\* detector() with the client test of its last branch inverted
detectorFlips(i, init, current) ==
  LET isClient == ~server
      presented == IF Truthy(storageKey(i))
                   THEN (IF isClient THEN UNDEFINED ELSE getStorage(storageKey(i)))
                   ELSE UNDEFINED
  IN  IF presented # UNDEFINED THEN Bool(presented = "true")
      ELSE IF init = UNDEFINED /\ isClient THEN Bool(current # JsTrue)
      ELSE current

detectorNoSystem(i, init, current) ==
  LET isClient == ~server
      presentedDarkMode ==
        IF Truthy(storageKey(i))
        THEN (IF isClient THEN UNDEFINED ELSE getStorage(storageKey(i)))
        ELSE UNDEFINED
  IN  IF presentedDarkMode # UNDEFINED
      THEN (IF presentedDarkMode = "true" THEN JsTrue
            ELSE IF presentedDarkMode = "false" THEN JsFalse
            ELSE current)
      ELSE IF init = UNDEFINED /\ ~isClient THEN Bool(os)
      ELSE current

\* detector(): the Mode it leaves, given the Mode before it
detector(i, init, current) ==
  LET isClient == ~server
      presentedDarkMode ==
        IF Truthy(storageKey(i))
        THEN (IF isClient THEN UNDEFINED ELSE getStorage(storageKey(i)))
        ELSE UNDEFINED
  IN  IF presentedDarkMode # UNDEFINED
      THEN (IF presentedDarkMode = "true" THEN JsTrue
            ELSE IF presentedDarkMode = "false" THEN JsFalse
            ELSE current)
      ELSE IF init = UNDEFINED /\ isClient THEN Bool(os)
      ELSE current

\* handler that never deletes the entry
handlerKeeps(store, key, matches) == store

\* handler (prefers-color-scheme change): what it leaves in storage
handler(store, key, matches) ==
  LET storageValue == store[key]
      parseStorageValueAsBool == (storageValue = "true")
  IN  IF parseStorageValueAsBool = matches THEN delStorage(store, key)
      ELSE store

\* storageHandler without the follow-system branch
storageHandlerKeepsMode(key, current) ==
  LET storageValue == getStorage(key)
  IN  IF storageValue = "true" THEN JsTrue
      ELSE IF storageValue = "false" THEN JsFalse
      ELSE current

\* storageHandler: the Mode it leaves
storageHandler(key, current) ==
  LET storageValue == getStorage(key)
  IN  IF storageValue = UNDEFINED THEN Bool(os)
      ELSE IF storageValue = "true" THEN JsTrue
      ELSE IF storageValue = "false" THEN JsFalse
      ELSE current

\* useGetState(darkMode): the Mode of the latest render
getDarkMode(i) == darkMode[i]

\* beforeunload handler that deletes without comparing
unloadHandlerAlways(i, store) == delStorage(store, darkModeKey)

\* beforeunload handler: what it leaves in storage
unloadHandler(i, store) ==
  IF Bool(os) = getDarkMode(i) THEN delStorage(store, darkModeKey) ELSE store

\* the class effect, for the Mode of the committed render
reflect(classes, mode) ==
  IF server \/ mode = UNDEFINED THEN classes
  ELSE IF Truthy(mode)
       THEN (classes \ {classNameLight}) \cup {classNameDark}
       ELSE (classes \ {classNameDark}) \cup {classNameLight}

\* the updater toggle() passes to setDarkMode
toggled(d) == Not(d)

\* toggle that persists the Mode it started from
toggleStoreStale(i, store, d) ==
  IF Truthy(storageKey(i)) /\ ~server
  THEN setStorage(store, storageKey(i), String(d))
  ELSE store

toggleStore(i, store, d) ==
  IF Truthy(storageKey(i)) /\ ~server
  THEN setStorage(store, storageKey(i), String(Not(d)))
  ELSE store

\* the hook without its server-side return
valueOfState(i) == darkMode[i]

\* the value the hook returns
value(i) == IF server THEN JsFalse ELSE darkMode[i]

\* every listener in turn
RECURSIVE EachMedia(_, _, _)
EachMedia(store, L, matches) ==
  IF L = <<>> THEN store
  ELSE EachMedia(handler(store, Head(L), matches), Tail(L), matches)

RECURSIVE EachStorage(_, _)
EachStorage(L, current) ==
  IF L = <<>> THEN current
  ELSE EachStorage(Tail(L), storageHandler(Head(L), current))

RECURSIVE EachUnload(_, _, _)
EachUnload(i, n, store) ==
  IF n = 0 THEN store ELSE EachUnload(i, n - 1, unloadHandler(i, store))

\* a cleanup that removes nothing
removeListenerNone(L, key) == L

\* removeEventListener: the listener the last effect run registered
RECURSIVE removeListener(_, _)
removeListener(L, key) ==
  IF L = <<>> THEN <<>>
  ELSE IF Head(L) = key THEN Tail(L)
  ELSE <<Head(L)>> \o removeListener(Tail(L), key)

addListener(L, key) == Append(L, key)

publishIsDarkOnMount(i, due, current) ==
  IF entry[i] = "useDarkMode" /\ "mount" \in dirty[i] THEN value(i) ELSE current

\* useDarkMode's effect on [value]: useMediaStore.setState({ isDark: value })
publishIsDark(i, due, current) ==
  IF entry[i] = "useDarkMode" /\ due THEN value(i) ELSE current

\* a render of useDarkMode passes the guard if (!onceRef.current)
togglePublishedAlways(i) == entry[i] = "useDarkMode"

togglePublished(i) == entry[i] = "useDarkMode" /\ ~onceRef[i]

\* useDarkMode behind onceRef: useMediaStore.setState({ toggle }), with the
\* toggle that render got from useDarkModeInternal
publishToggle(i, current) ==
  IF togglePublished(i)
  THEN (IF server THEN "server" ELSE "consumer")
  ELSE current

\* what a render of instance i does to onceRef and to the store's toggle
RenderCell(i, rendered) ==
  /\ cellToggle' = [cellToggle EXCEPT ![i] =
                      IF rendered THEN publishToggle(i, @) ELSE @]
  /\ toggleWrites' = [toggleWrites EXCEPT ![i] =
                        IF rendered /\ togglePublished(i) THEN @ + 1 ELSE @]
  /\ onceRef' = [onceRef EXCEPT ![i] =
                   IF rendered THEN @ \/ entry[i] = "useDarkMode" ELSE @]

\* setDarkMode(m) in instance i, then the render it schedules
SetDarkMode(i, m, store) ==
  /\ darkMode' = [darkMode EXCEPT ![i] = m]
  /\ initialState' =
       [initialState EXCEPT ![i] = IF m # darkMode[i] THEN Argument(i, store) ELSE @]
  /\ dirty' = [dirty EXCEPT ![i] = IF m # darkMode[i] THEN @ \cup {"darkMode"} ELSE @]
  /\ RenderCell(i, m # darkMode[i])

\* the history: the operation that leads to the next state, the instance it
\* ran in, a key it concerns, and the Mode, the storage and the count of
\* toggle publications it started from
Did(op, i, key) ==
  last' = [op |-> op, i |-> i, key |-> key,
           mode |-> IF i \in Inst THEN darkMode[i] ELSE UNDEFINED,
           store |-> localStorage,
           writes |-> IF i \in Inst THEN toggleWrites[i] ELSE 0]

\* ---- the initial states -------------------------------------------------
\* nothing is mounted yet: no state, no listener, the store as created
NothingMounted ==
  /\ phase = [i \in Inst |-> "idle"]
  /\ darkMode = [i \in Inst |-> UNDEFINED]
  /\ initialState = [i \in Inst |-> UNDEFINED]
  /\ triggerOnce = [i \in Inst |-> FALSE]
  /\ dirty = [i \in Inst |-> {}]
  /\ effectKey = [i \in Inst |-> UNDEFINED]
  /\ storageL = [i \in Inst |-> <<>>]
  /\ mediaL = [i \in Inst |-> <<>>]
  /\ unloadL = [i \in Inst |-> 0]
  /\ seenOs = [i \in Inst |-> FALSE]
  /\ storageEvt = [i \in Inst |-> {}]
  /\ classList = [i \in Inst |-> markup]
  /\ onceRef = [i \in Inst |-> FALSE]
  /\ isDark = [i \in Inst |-> JsFalse]
  /\ cellToggle = [i \in Inst |-> "initial"]
  /\ toggleWrites = [i \in Inst |-> 0]
  /\ activatedWith = [i \in Inst |-> UNDEFINED]
  /\ overtaken = [i \in Inst |-> FALSE]
  /\ last = [op |-> "init", i |-> 0, key |-> UNDEFINED, mode |-> UNDEFINED,
             store |-> localStorage, writes |-> 0]

Init ==
  /\ server \in BOOLEAN
  /\ os \in BOOLEAN
  /\ localStorage \in [Keys -> Stored]
  /\ markup \in {{}, {classNameDark, classNameLight}}
  /\ entry \in Scenarios
  /\ initialArg \in [Inst -> {UNDEFINED, JsTrue, JsFalse}]
  /\ optKey \in [Inst -> KeyOptions]
  /\ \A i \in Inst :
       entry[i] # "useDarkModeInternal" =>
         initialArg[i] = UNDEFINED /\ optKey[i] = darkModeKey
  /\ NothingMounted

\* several tabs of one browser, each running the application's useDarkMode
InitTabs ==
  /\ server = FALSE
  /\ os \in BOOLEAN
  /\ localStorage \in {f \in [Keys -> Stored] : \A k \in Keys \ {darkModeKey} : f[k] = UNDEFINED}
  /\ markup = {}
  /\ entry = [i \in Inst |-> "useDarkMode"]
  /\ initialArg = [i \in Inst |-> UNDEFINED]
  /\ optKey = [i \in Inst |-> darkModeKey]
  /\ NothingMounted

\* ---- the operations -----------------------------------------------------
\* the first render of a consumer: useState(initialState), then detector()
\* behind the triggerOnce latch; on the client the mount effects are due
Activate(i) ==
  /\ entry[i] # "none"
  /\ phase[i] = "idle"
  /\ LET init == Argument(i, localStorage)
     IN  /\ initialState' = [initialState EXCEPT ![i] = init]
         /\ darkMode' = [darkMode EXCEPT ![i] = detector(i, init, init)]
  /\ triggerOnce' = [triggerOnce EXCEPT ![i] = TRUE]
  /\ phase' = [phase EXCEPT ![i] = "mounted"]
  /\ dirty' = [dirty EXCEPT ![i] = IF server THEN {} ELSE {"mount"}]
  /\ entry[i] = "useDarkMode" => toggleWrites[i] < MaxToggleWrites
  /\ RenderCell(i, TRUE)
  /\ activatedWith' = [activatedWith EXCEPT ![i] = Argument(i, localStorage)]
  /\ overtaken' = [overtaken EXCEPT ![i] = FALSE]
  /\ Did("activate", i, UNDEFINED)
  /\ UNCHANGED <<config, os, localStorage, optKey, effectKey, storageL, mediaL,
                 unloadL, seenOs, storageEvt, classList, isDark>>

\* the effects of the committed render, in the order the hook declares them
RunEffects(i) ==
  /\ phase[i] = "mounted"
  /\ dirty[i] # {}
  /\ LET mount == "mount" \in dirty[i]
         modeDue == mount \/ "darkMode" \in dirty[i]
         keyDue == mount \/ "storageKey" \in dirty[i]
         m == IF modeDue THEN detector(i, initialState[i], darkMode[i])
              ELSE darkMode[i]
         sL == IF mount THEN storageL[i] ELSE removeListener(storageL[i], effectKey[i])
         mL == IF mount THEN mediaL[i] ELSE removeListener(mediaL[i], effectKey[i])
     IN  /\ darkMode' = [darkMode EXCEPT ![i] = m]
         /\ initialState' =
              [initialState EXCEPT ![i] =
                 IF m # darkMode[i] THEN Argument(i, localStorage) ELSE @]
         /\ dirty' = [dirty EXCEPT ![i] = IF m # darkMode[i] THEN {"darkMode"} ELSE {}]
         /\ RenderCell(i, m # darkMode[i])
         /\ storageL' = [storageL EXCEPT ![i] =
                           IF keyDue THEN addListener(sL, storageKey(i)) ELSE @]
         /\ mediaL' = [mediaL EXCEPT ![i] =
                         IF keyDue THEN addListener(mL, storageKey(i)) ELSE @]
         /\ effectKey' = [effectKey EXCEPT ![i] = IF keyDue THEN storageKey(i) ELSE @]
         /\ seenOs' = [seenOs EXCEPT ![i] = IF mount THEN os ELSE @]
         /\ unloadL' = [unloadL EXCEPT ![i] = IF mount THEN @ + 1 ELSE @]
         /\ classList' = [classList EXCEPT ![i] =
                            IF modeDue THEN reflect(@, darkMode[i]) ELSE @]
         /\ isDark' = [isDark EXCEPT ![i] = publishIsDark(i, modeDue, @)]
  /\ Did("effects", i, effectKey[i])
  /\ UNCHANGED <<config, os, localStorage, optKey, phase, triggerOnce, storageEvt,
                 history>>

\* the user calls the returned toggle.  React runs the updater either at
\* once (eagerly, the update queue being empty) or in the next render, and
\* then after useDarkMode has evaluated getStorage(darkModeKey) for it
Toggle(i) ==
  /\ phase[i] = "mounted"
  /\ dirty[i] = {}
  /\ IF server
     THEN UNCHANGED <<localStorage, darkMode, initialState, dirty, storageEvt,
                      onceRef, cellToggle, toggleWrites>>
     ELSE LET store == toggleStore(i, localStorage, darkMode[i])
          IN  /\ localStorage' = store
              /\ storageEvt' = Notify(i, store)
              /\ \E eager \in BOOLEAN :
                    SetDarkMode(i, toggled(darkMode[i]),
                                IF eager THEN store ELSE localStorage)
  /\ Did("toggle", i, UNDEFINED)
  /\ UNCHANGED <<config, os, optKey, phase, triggerOnce, effectKey, storageL,
                 mediaL, unloadL, seenOs, classList, isDark, history>>

\* a browser instance with every effect flushed and every event delivered
Quiescent(i) ==
  /\ ~server /\ phase[i] = "mounted" /\ dirty[i] = {}
  /\ storageEvt[i] = {} /\ seenOs[i] = os

\* the operating system's preference changes
OsChange ==
  /\ ~server
  /\ os' = ~os
  /\ overtaken' = [i \in Inst |->
                     overtaken[i] \/ (phase[i] = "mounted" /\ ~Quiescent(i))]
  /\ Did("os", 0, UNDEFINED)
  /\ UNCHANGED <<config, localStorage, optKey, phase, darkMode, initialState,
                 triggerOnce, dirty, effectKey, storageL, mediaL, unloadL,
                 seenOs, storageEvt, classList, cell, activatedWith>>

\* the media query's "change" event reaches the listeners of instance i
MediaEvent(i) ==
  /\ phase[i] = "mounted"
  /\ dirty[i] = {}
  /\ mediaL[i] # <<>>
  /\ seenOs[i] # os
  /\ seenOs' = [seenOs EXCEPT ![i] = os]
  /\ LET store == EachMedia(localStorage, mediaL[i], os)
     IN  /\ localStorage' = store
         /\ storageEvt' = Notify(i, store)
         /\ SetDarkMode(i, Bool(os), store)
  /\ Did("media", i, UNDEFINED)
  /\ UNCHANGED <<config, os, optKey, phase, triggerOnce, effectKey, storageL,
                 mediaL, unloadL, classList, isDark, history>>

\* a "storage" event for key k reaches the listeners of instance i
StorageEvent(i, k) ==
  /\ phase[i] = "mounted"
  /\ dirty[i] = {}
  /\ storageL[i] # <<>>
  /\ k \in storageEvt[i]
  /\ storageEvt' = [storageEvt EXCEPT ![i] = @ \ {k}]
  /\ SetDarkMode(i, EachStorage(storageL[i], darkMode[i]), localStorage)
  /\ Did("storage", i, k)
  /\ UNCHANGED <<config, os, localStorage, optKey, phase, triggerOnce, effectKey,
                 storageL, mediaL, unloadL, seenOs, classList, isDark, history>>

\* the page of instance i unloads: the beforeunload listeners run and the
\* page, with its listeners and its state, is gone
Unload(i) ==
  /\ ~server
  /\ phase[i] = "mounted"
  /\ dirty[i] = {}
  /\ LET store == EachUnload(i, unloadL[i], localStorage)
     IN  /\ localStorage' = store
         /\ storageEvt' = [Notify(i, store) EXCEPT ![i] = {}]
  /\ phase' = [phase EXCEPT ![i] = "idle"]
  /\ darkMode' = [darkMode EXCEPT ![i] = UNDEFINED]
  /\ initialState' = [initialState EXCEPT ![i] = UNDEFINED]
  /\ triggerOnce' = [triggerOnce EXCEPT ![i] = FALSE]
  /\ dirty' = [dirty EXCEPT ![i] = {}]
  /\ effectKey' = [effectKey EXCEPT ![i] = UNDEFINED]
  /\ storageL' = [storageL EXCEPT ![i] = <<>>]
  /\ mediaL' = [mediaL EXCEPT ![i] = <<>>]
  /\ unloadL' = [unloadL EXCEPT ![i] = 0]
  /\ seenOs' = [seenOs EXCEPT ![i] = FALSE]
  /\ classList' = [classList EXCEPT ![i] = markup]
  /\ onceRef' = [onceRef EXCEPT ![i] = FALSE]
  /\ isDark' = [isDark EXCEPT ![i] = JsFalse]
  /\ cellToggle' = [cellToggle EXCEPT ![i] = "initial"]
  /\ toggleWrites' = [toggleWrites EXCEPT ![i] = 0]
  /\ activatedWith' = [activatedWith EXCEPT ![i] = UNDEFINED]
  /\ overtaken' = [overtaken EXCEPT ![i] = FALSE]
  /\ Did("unload", i, UNDEFINED)
  /\ UNCHANGED <<config, os, optKey>>

\* the consumer of instance i unmounts: the effects' cleanups run
Unmount(i) ==
  /\ ~server
  /\ phase[i] = "mounted"
  /\ dirty[i] = {}
  /\ storageL' = [storageL EXCEPT ![i] = removeListener(@, effectKey[i])]
  /\ mediaL' = [mediaL EXCEPT ![i] = removeListener(@, effectKey[i])]
  /\ unloadL' = [unloadL EXCEPT ![i] = IF @ > 0 THEN @ - 1 ELSE 0]
  /\ phase' = [phase EXCEPT ![i] = "idle"]
  /\ darkMode' = [darkMode EXCEPT ![i] = UNDEFINED]
  /\ initialState' = [initialState EXCEPT ![i] = UNDEFINED]
  /\ triggerOnce' = [triggerOnce EXCEPT ![i] = FALSE]
  /\ effectKey' = [effectKey EXCEPT ![i] = UNDEFINED]
  /\ seenOs' = [seenOs EXCEPT ![i] = FALSE]
  /\ storageEvt' = [storageEvt EXCEPT ![i] = {}]
  /\ Did("unmount", i, UNDEFINED)
  /\ onceRef' = [onceRef EXCEPT ![i] = FALSE]
  /\ activatedWith' = [activatedWith EXCEPT ![i] = UNDEFINED]
  /\ overtaken' = [overtaken EXCEPT ![i] = FALSE]
  /\ UNCHANGED <<config, os, localStorage, optKey, dirty, classList, isDark,
                 cellToggle, toggleWrites>>

\* the consumer re-renders with another options.storageKey
ChangeKey(i, k) ==
  /\ ~server
  /\ entry[i] = "useDarkModeInternal"
  /\ phase[i] = "mounted"
  /\ dirty[i] = {}
  /\ k # optKey[i]
  /\ optKey' = [optKey EXCEPT ![i] = k]
  /\ dirty' = [dirty EXCEPT ![i] =
                 IF storageKey(i)' # storageKey(i) THEN {"storageKey"} ELSE {}]
  /\ Did("key", i, k)
  /\ UNCHANGED <<config, os, localStorage, phase, darkMode, initialState,
                 triggerOnce, effectKey, storageL, mediaL, unloadL, seenOs,
                 storageEvt, classList,
                 cell, history>>

\* another document of the origin writes or deletes the entry under k
ExternalWrite(k, v) ==
  /\ ~server
  /\ v # localStorage[k]
  /\ localStorage' = setStorage(localStorage, k, v)
  /\ storageEvt' = Notify(0, localStorage')
  /\ Did("external", 0, k)
  /\ UNCHANGED <<config, os, optKey, phase, darkMode, initialState, triggerOnce,
                 dirty, effectKey, storageL, mediaL, unloadL, seenOs, classList,
                 cell, history>>

Next ==
  \/ \E i \in Inst : Activate(i)
  \/ \E i \in Inst : RunEffects(i)
  \/ \E i \in Inst : Toggle(i)
  \/ OsChange
  \/ \E i \in Inst : MediaEvent(i)
  \/ \E i \in Inst, k \in Keys : StorageEvent(i, k)
  \/ \E i \in Inst : Unload(i)
  \/ \E i \in Inst : Unmount(i)
  \/ \E i \in Inst, k \in KeyOptions : ChangeKey(i, k)
  \/ \E k \in Keys, v \in Stored : ExternalWrite(k, v)

Spec == Init /\ [][Next]_vars

\* the tabs load, toggle, receive events and unload; nothing else writes
NextTabs ==
  \/ \E i \in Inst : Activate(i)
  \/ \E i \in Inst : RunEffects(i)
  \/ \E i \in Inst : Toggle(i)
  \/ OsChange
  \/ \E i \in Inst : MediaEvent(i)
  \/ \E i \in Inst, k \in Keys : StorageEvent(i, k)
  \/ \E i \in Inst : Unload(i)

SpecTabs == InitTabs /\ [][NextTabs]_vars

\* ---- the claims ---------------------------------------------------------
\* the operation that led to this state ran in instance i
Ran(op, i) == last.op = op /\ last.i = i

\* the boolean a stored string stands for
Parsed(v) == IF v = "true" THEN JsTrue ELSE JsFalse

\* C1: in a browser, a toggle() from a boolean Mode m leaves the value the
\* hook reports at the negation of m and the entry under the configured key
\* at String of that negation: the Stored Preference is present and agrees
\* with Mode right after the toggle.
ToggleRoundTrip ==
  \A i \in Inst :
    Ran("toggle", i) /\ ~server /\ Truthy(storageKey(i)) /\ IsBool(last.mode) =>
      /\ last.mode = JsTrue => value(i) = JsFalse /\ localStorage[storageKey(i)] = "false"
      /\ last.mode = JsFalse => value(i) = JsTrue /\ localStorage[storageKey(i)] = "true"

ToggleRoundTripWitness ==
  \E i \in Inst :
    /\ Ran("toggle", i) /\ ~server
    /\ last.mode = JsFalse /\ last.store[storageKey(i)] = UNDEFINED
    /\ darkMode[i] = JsTrue /\ localStorage[storageKey(i)] = "true"

\* the Mode a value stands for: a stored string counts as its boolean
Means(v) == IF v = "true" THEN JsTrue ELSE IF v = "false" THEN JsFalse ELSE v

\* C2: on the client, detect() resolves Mode by priority: a Stored
\* Preference of "true" or "false" decides; else, with no explicit initial
\* value, the OS preference; else the explicit initial value stays.
DetectPriority ==
  \A i \in Inst :
    Ran("activate", i) /\ ~server =>
      LET stored == localStorage[storageKey(i)]
      IN  Means(darkMode[i]) =
            IF stored \in {"true", "false"} THEN Parsed(stored)
            ELSE IF initialState[i] = UNDEFINED THEN Bool(os)
            ELSE initialState[i]

\* C3: a storage-change event handled by an instance sets Mode to the OS
\* preference when the entry under its key is absent, to true when it is
\* "true" and to false when it is "false", and leaves the storage as it was.
StorageChangeSetsMode ==
  \A i \in Inst :
    Ran("storage", i) =>
      /\ localStorage = last.store
      /\ LET v == localStorage[storageKey(i)]
         IN  /\ v = UNDEFINED => darkMode[i] = Bool(os)
             /\ v = "true" => darkMode[i] = JsTrue
             /\ v = "false" => darkMode[i] = JsFalse

StorageChangeSetsModeWitness ==
  \E i \in Inst :
    /\ Ran("storage", i) /\ last.mode = JsFalse /\ ~os
    /\ localStorage[storageKey(i)] = "true" /\ darkMode[i] = JsTrue

\* C4: an OS-preference-change event reporting v sets Mode to v whatever is
\* stored, deletes the Stored Preference when (stored === "true") equals v
\* and leaves it unchanged otherwise.
OsChangeSetsMode ==
  \A i \in Inst :
    Ran("media", i) =>
      /\ darkMode[i] = Bool(os)
      /\ LET was == last.store[storageKey(i)]
         IN  localStorage[storageKey(i)] =
               IF (was = "true") = os THEN UNDEFINED ELSE was

OsChangeSetsModeWitness ==
  \E i \in Inst :
    /\ Ran("media", i) /\ os /\ darkMode[i] = JsTrue
    /\ last.store[storageKey(i)] = "true"
    /\ localStorage[storageKey(i)] = UNDEFINED

\* C5: on unload the Stored Preference (the entry under the configured key)
\* is deleted when the OS preference equals the last-known Mode and is left
\* unchanged when they differ.
UnloadReset ==
  \A i \in Inst :
    Ran("unload", i) =>
      localStorage[storageKey(i)] =
        IF Bool(os) = last.mode THEN UNDEFINED ELSE last.store[storageKey(i)]

\* an entry that was present before the operation and is absent after it
Removed(k) == last.store[k] # UNDEFINED /\ localStorage[k] = UNDEFINED

\* C6, as claimed: whenever the OS-change handler or the unload handler
\* removes a present Stored Preference, the boolean parse of the removed
\* value equals the OS preference of that step.
DeletedOnlyWhenRedundant ==
  \A i \in Inst, k \in Keys :
    (Ran("media", i) \/ Ran("unload", i)) /\ Removed(k) =>
      Parsed(last.store[k]) = Bool(os)

\* C6, amended: when the OS-change handler removes a present entry, the
\* boolean parse of the removed value equals the OS preference of that
\* step; when the unload handler removes one, the Mode the instance last
\* had equals the OS preference of that step.
DeletedWhenRedundantOrModeFollows ==
  \A i \in Inst, k \in Keys :
    /\ Ran("media", i) /\ Removed(k) => Parsed(last.store[k]) = Bool(os)
    /\ Ran("unload", i) /\ Removed(k) => last.mode = Bool(os)

DeletedWhenRedundantOrModeFollowsWitness ==
  \E i \in Inst :
    /\ Ran("unload", i) /\ ~os /\ last.mode = JsFalse
    /\ last.store[darkModeKey] = "true" /\ localStorage[darkModeKey] = UNDEFINED

\* C7: in a server context the hook reports the value false, toggle changes
\* nothing, no operation changes the storage or the element's class list,
\* and detect() leaves Mode as useState initialised it (undetermined for
\* the application's useDarkMode).
ServerSideSafety ==
  server =>
    /\ localStorage = last.store
    /\ \A i \in Inst :
         /\ classList[i] = markup
         /\ phase[i] = "mounted" =>
              /\ value(i) = JsFalse
              /\ darkMode[i] = initialState[i]
              /\ entry[i] = "useDarkMode" => darkMode[i] = UNDEFINED
         /\ Ran("toggle", i) => darkMode[i] = last.mode

ServerSideSafetyWitness ==
  \E i \in Inst :
    /\ server /\ Ran("toggle", i) /\ phase[i] = "mounted"
    /\ initialArg[i] = JsTrue /\ localStorage[darkModeKey] = "true"

\* C8: in a browser, once the class effect has run for a determined Mode,
\* the element carries the dark class iff Mode is true and the light class
\* iff Mode is false (so exactly one of the two).
ReflectedClasses ==
  \A i \in Inst :
    ~server /\ phase[i] = "mounted" /\ dirty[i] = {} /\ darkMode[i] # UNDEFINED =>
      /\ classNameDark \in classList[i] <=> Means(darkMode[i]) = JsTrue
      /\ classNameLight \in classList[i] <=> Means(darkMode[i]) = JsFalse

ModeDetermined ==
  \A i \in Inst : ~server /\ phase[i] = "mounted" => darkMode[i] # UNDEFINED

ModeDeterminedWitness ==
  \E i \in Inst :
    /\ ~server /\ Ran("activate", i) /\ initialState[i] = UNDEFINED
    /\ os /\ darkMode[i] = JsTrue

\* C11: detect() is idempotent and its feedback loop settles: with the
\* initial value, the storage and the OS preference as they stand, a second
\* detect() gives the Mode the first one gave, and after an effect run
\* whose detect() changed Mode the re-run that change schedules changes it
\* no more.
DetectConverges ==
  \A i \in Inst :
    phase[i] = "mounted" =>
      /\ LET once == detector(i, initialState[i], darkMode[i])
         IN  detector(i, initialState[i], once) = once
      /\ Ran("effects", i) /\ "darkMode" \in dirty[i] =>
           detector(i, initialState[i], darkMode[i]) = darkMode[i]

DetectConvergesWitness ==
  \E i \in Inst :
    /\ Ran("effects", i) /\ "darkMode" \in dirty[i] /\ ~server
    /\ last.mode = JsTrue /\ darkMode[i] = JsFalse /\ ~os

\* C13: a storage-change event caused by a change to another key than the
\* instance's own leaves its Mode unchanged.
OtherKeyEventKeepsMode ==
  \A i \in Inst :
    Ran("storage", i) /\ last.key # storageKey(i) => darkMode[i] = last.mode

\* C16: with options.storageKey given as undefined persistence is disabled:
\* a toggle writes nothing to the storage.
UndefinedKeyDisablesPersistence ==
  \A i \in Inst :
    Ran("toggle", i) /\ entry[i] = "useDarkModeInternal" /\ optKey[i] = UNDEFINED =>
      localStorage = last.store

\* C17, as claimed: in every quiescent state of a browser instance, if the
\* Stored Preference is absent then Mode equals the OS preference.
AbsentMeansSystem ==
  \A i \in Inst :
    Quiescent(i) /\ localStorage[storageKey(i)] = UNDEFINED =>
      Means(darkMode[i]) = Bool(os)

\* C17, amended: in every quiescent state of a browser instance that was
\* activated with no explicit initial value and has met every change of
\* the OS preference in a quiescent state, if the Stored Preference is
\* absent then Mode equals the OS preference.
AbsentMeansSystemUnlessInitial ==
  \A i \in Inst :
    Quiescent(i) /\ activatedWith[i] = UNDEFINED /\ ~overtaken[i]
                 /\ localStorage[storageKey(i)] = UNDEFINED =>
      darkMode[i] = Bool(os)

AbsentMeansSystemUnlessInitialWitness ==
  \E i \in Inst :
    /\ Quiescent(i) /\ activatedWith[i] = UNDEFINED /\ ~overtaken[i]
    /\ entry[i] = "useDarkMode" /\ Ran("storage", i)
    /\ last.key = storageKey(i) /\ localStorage[storageKey(i)] = UNDEFINED
    /\ os /\ darkMode[i] = JsTrue

\* C18: in a browser instance activated with no explicit initial value, a
\* toggle is not undone by reconciliation: the detect() that the toggle's
\* Mode change re-runs leaves Mode at the toggled value.
ToggleNotUndone ==
  \A i \in Inst :
    Ran("toggle", i) /\ ~server /\ activatedWith[i] = UNDEFINED =>
      detector(i, initialState[i], darkMode[i]) = darkMode[i]

\* C19: an instance configured with key K writes and deletes only the entry
\* under K: its toggle, its handlers and its unload reset leave every other
\* entry of the storage unchanged.
OnlyOwnKeyTouched ==
  \A i \in Inst, k \in Keys :
    last.i = i /\ last.op \in {"toggle", "media", "storage", "unload", "effects"}
               /\ k # storageKey(i) =>
      localStorage[k] = last.store[k]

\* C12: the shared cell starts with isDark false and the initial no-op
\* toggle, and isDark is republished on every Mode change: in a browser,
\* once the publishing effect of a mounted consumer has run for its latest
\* Mode, the cell's isDark equals the value the consumer reports.
CellFollowsValue ==
  \A i \in Inst :
    /\ last.op = "init" => isDark[i] = JsFalse /\ cellToggle[i] = "initial"
    /\ ~server /\ entry[i] = "useDarkMode" /\ phase[i] = "mounted"
               /\ dirty[i] \cap {"mount", "darkMode"} = {} =>
         isDark[i] = value(i)

CellFollowsValueWitness ==
  \E i \in Inst :
    /\ ~server /\ entry[i] = "useDarkMode" /\ Ran("effects", i) /\ dirty[i] = {}
    /\ activatedWith[i] = UNDEFINED /\ ~os /\ ~overtaken[i]
    /\ isDark[i] = JsTrue /\ value(i) = JsTrue

\* C15, as claimed: the toggle of the shared cell is written exactly once
\* in a process lifetime, and from then on it is the toggle of a live
\* activation, not the server-side no-op.
TogglePublishedOncePerProcess ==
  \A i \in Inst :
    /\ toggleWrites[i] <= 1
    /\ toggleWrites[i] = 1 => cellToggle[i] = "consumer" /\ phase[i] = "mounted"

\* C15, amended: a consumer writes the cell's toggle exactly once per
\* mount, in its first render, and no other step writes it; while the
\* consumer is mounted the cell holds its toggle, live in a browser and
\* the no-op in a server context.
TogglePublishedOncePerMount ==
  \A i \in Inst :
    entry[i] = "useDarkMode" =>
      /\ Ran("activate", i) => toggleWrites[i] = last.writes + 1
      /\ last.i = i /\ last.op \in {"effects", "toggle", "media", "storage", "unmount"} =>
           toggleWrites[i] = last.writes
      /\ phase[i] = "mounted" =>
           cellToggle[i] = IF server THEN "server" ELSE "consumer"

TogglePublishedOncePerMountWitness ==
  \E i \in Inst :
    /\ Ran("effects", i) /\ ~server /\ last.mode # darkMode[i]
    /\ toggleWrites[i] = 2 /\ last.writes = 2 /\ cellToggle[i] = "consumer"

\* C14: a toggle in one tab propagates to all open tabs: once every open
\* tab is quiescent (effects flushed, storage and OS events delivered), all
\* of them have the same Mode.
TabsAgree ==
  (\A i \in Inst : phase[i] = "mounted" => Quiescent(i)) =>
    \A i, j \in Inst :
      phase[i] = "mounted" /\ phase[j] = "mounted" =>
        Means(darkMode[i]) = Means(darkMode[j])
====
